---- MODULE Spec2Model ----
(***************************************************************************)
(* Batch image-resizing engine of src/image_processor.py:                  *)
(*   ImageProcessor              the sequential runner                     *)
(*   process_single_image_worker the task run in a worker process          *)
(*   MultiProcessImageProcessor  the parallel runner with its fallback     *)
(* One behaviour is one batch_process call on one processor instance,      *)
(* optionally preceded or followed by direct process_single_image calls;   *)
(* under SpecReuse the caller runs the same batch a second time.           *)
(* Other parts of the program have specifications of their own, in which  *)
(* no batch runs: the resize policy (SpecResize), get_safe_filename of     *)
(* src/file_manager.py (SpecSafeName), the file list of the window of      *)
(* src/gui_pyside6.py (SpecWindow), and two threads running batch_process  *)
(* on one ImageProcessor at the same time (SpecOverlap).                   *)
(***************************************************************************)
EXTENDS Integers, Sequences, FiniteSets, TLC

\* ---------------------------------------------------------------- bounds
\* longest file list handed to batch_process
MaxFiles == 2
\* largest max_workers given to MultiProcessImageProcessor
MaxWorkers == 1
\* direct process_single_image calls the caller makes around the batch
MaxDirect == 1

\* ------------------------------------------------------------ path model
\* A path is kept split the way os.path.basename / os.path.splitext split
\* it: directory, stem and extension (with its dot, case preserved).
Path(d, n, e) == [dir |-> d, name |-> n, ext |-> e]

\* The files of the model: two images with the same base name in different
\* folders, their extension in upper case, and one file that is no image.
Paths ==
    { Path("in1", "a", ".JPG"), Path("in2", "a", ".JPG"),
      Path("in1", "notes", ".txt") }

OutputDir == "out"

\* str.lower() on the extensions that occur
str_lower(s) ==
    CASE s = ".PNG" -> ".png"
      [] s = ".JPG" -> ".jpg"
      [] OTHER -> s

SUPPORTED_FORMATS == {".jpg", ".jpeg", ".png", ".bmp", ".tiff", ".webp"}

\* os.path.splitext(file_path)[1]
splitext_ext(file_path) == file_path.ext

\* os.path.basename(input_path): stem and extension, the folder dropped
basename(input_path) == [name |-> input_path.name, ext |-> input_path.ext]

is_supported_format_nolower(file_path) ==
    splitext_ext(file_path) \in SUPPORTED_FORMATS

is_supported_format(file_path) ==
    str_lower(splitext_ext(file_path)) \in SUPPORTED_FORMATS

output_path_of_keeps_dir(input_path, output_dir) ==
    [dir |-> output_dir,
     name |-> input_path.dir \o "_" \o input_path.name \o "_resized",
     ext |-> input_path.ext]

\* output_dir/<name>_resized<ext>
output_path_of(input_path, output_dir) ==
    [dir |-> output_dir, name |-> input_path.name \o "_resized",
     ext |-> input_path.ext]

\* reason recorded for a file of an unsupported format ("不支持的文件格式")
UNSUPPORTED == "unsupported format"
\* str(e) of the exception a single-image task caught
TASK_ERROR == "task error"
\* f"处理异常: {str(e)}", recorded by the collector's exception handler
COLLECT_ERROR == "collect exception"

\* ------------------------------------------------------------- the state
VARIABLES
    file_list,        \* argument of batch_process
    bad,              \* environment: the files on which some task step throws
    runner,           \* "single": ImageProcessor, "multi": MultiProcessImageProcessor
    cb_kind,          \* progress_callback: "none", "ok", or "flaky" (may raise)
    max_workers,      \* self.max_workers
    pc,               \* position of the caller / of batch_process
    processed_count,  \* obj -> processed_count
    failed_files,     \* obj -> address of its failed_files list in lists
    lists,            \* the list objects: address -> contents
    cur,              \* the object whose batch_process loop is running
    i,                \* loop index of the sequential for (0-based)
    tasks,            \* tasks of the parallel runner
    fut,              \* the task's future: state and result
    completed_count,  \* local of the parallel batch_process
    log,              \* task runs and callback invocations, in order
    result,           \* the dict batch_process returned
    direct,           \* direct process_single_image calls made
    outputs,          \* the files of output_dir: output path -> input saved there
    runs,             \* position -> times the single-image logic ran on it
    again,            \* the caller has started the batch a second time
    prev,             \* what the first run returned and left in output_dir
    resized,          \* one call of the resize policy: arguments and results
    safe,             \* one call of FileManager.get_safe_filename
    selected_files,   \* the window's list of selected files
    warned,           \* the last add_files showed its warning box
    threads           \* caller threads inside batch_process of one instance

vars == <<file_list, bad, runner, cb_kind, max_workers, pc, processed_count,
          failed_files, lists, cur, i, tasks, fut, completed_count, log,
          result, direct, outputs, runs, again, prev, resized, safe,
          selected_files, warned, threads>>

\* the state of the parts outside the batch engine
others == <<resized, safe, selected_files, warned, threads>>

inputs == <<file_list, bad, runner, cb_kind, max_workers>>

\* self, and the ImageProcessor the fallback constructs
Objs == {"self", "single"}

\* contents of obj's failed_files list
FF(obj) == lists[failed_files[obj]]

NoResult == [returned |-> FALSE]

\* ------------------------------------------------------ single-image task
\* statements of the try block that can throw
ThrowingSteps ==
    {"open", "exif_transpose", "convert", "resize", "makedirs", "save"}

\* which step throws on a file: any of them on a bad file, none on a good one
Throwing(path) == IF path \in bad THEN ThrowingSteps ELSE {"none"}

process_single_image_body_count_early ==
    <<"open", "exif_transpose", "convert", "resize", "makedirs",
      "processed_count += 1", "save", "return True">>

\* the try block of process_single_image, statement by statement
process_single_image_body ==
    <<"open", "exif_transpose", "convert", "resize", "makedirs", "save",
      "processed_count += 1", "return True">>

\* how many statements of body, from the k-th on, ran to completion when
\* step `throws` throws
RECURSIVE ExecutedFrom(_, _, _)
ExecutedFrom(body, k, throws) ==
    IF k > Len(body) \/ body[k] = throws THEN k - 1
    ELSE ExecutedFrom(body, k + 1, throws)

\* the statements that ran to completion when step `throws` throws
Executed(body, throws) == SubSeq(body, 1, ExecutedFrom(body, 1, throws))

Ran(stmt, body, throws) ==
    LET done == Executed(body, throws)
    IN \E k \in 1..Len(done) : done[k] = stmt

\* process_single_image on an object with counter cnt and failure list ff
process_single_image(cnt, ff, input_path, throws) ==
    LET body == process_single_image_body
        thrown == ~Ran("return True", body, throws)
    IN [processed_count |->
            IF Ran("processed_count += 1", body, throws) THEN cnt + 1 ELSE cnt,
        failed_files |->
            IF thrown THEN Append(ff, <<input_path, TASK_ERROR>>) ELSE ff,
        saved |-> Ran("save", body, throws),
        ret |-> ~thrown]

\* the try block of process_single_image_worker
process_single_image_worker_body ==
    <<"open", "exif_transpose", "convert", "resize", "makedirs", "save",
      "return True">>

\* process_single_image_worker(task): (success, input_path, error)
process_single_image_worker(task, throws) ==
    IF Ran("return True", process_single_image_worker_body, throws)
    THEN <<TRUE, task.input_path, "None">>
    ELSE <<FALSE, task.input_path, TASK_ERROR>>

\* whether the worker's resized_img.save(output_path, ...) completed
process_single_image_worker_saved(throws) ==
    Ran("save", process_single_image_worker_body, throws)

Save_versioned(fs, output_path, input_path, saved) ==
    LET fresh == IF output_path \in DOMAIN fs
                 THEN [output_path EXCEPT !.name = @ \o "_1"]
                 ELSE output_path
    IN IF saved
       THEN [o \in DOMAIN fs \cup {fresh} |->
                IF o = fresh THEN input_path ELSE fs[o]]
       ELSE fs

\* resized_img.save(output_path, ...): the file is created or overwritten
\* with the resized image of input_path, provided the save completed
Save(fs, output_path, input_path, saved) ==
    IF saved
    THEN [o \in DOMAIN fs \cup {output_path} |->
             IF o = output_path THEN input_path ELSE fs[o]]
    ELSE fs

\* log entries
TaskEntry(by, pos, path, ok) ==
    [op |-> "task", by |-> by, pos |-> pos, arg |-> path, ok |-> ok,
     num |-> 0, den |-> 0, raised |-> FALSE]

CbEntry(by, pos, filename, ok, num, den, raised) ==
    [op |-> "cb", by |-> by, pos |-> pos, arg |-> filename, ok |-> ok,
     num |-> num, den |-> den, raised |-> raised]

\* whether this invocation of the callback raises
CbRaises == IF cb_kind = "flaky" THEN BOOLEAN ELSE {FALSE}

WorkerCallbacks_reports(task, res) ==
    <<CbEntry("worker", task.pos, basename(task.input_path), res[1], 1, 1, FALSE)>>

\* the callback invocations a worker process makes for its task: the task
\* tuple carries no callback, so none
WorkerCallbacks(task, res) == <<>>

\* -------------------------------------------------------------------- Init
\* file lists of length 0..MaxFiles
FileLists == UNION { [1..n -> Paths] : n \in 0..MaxFiles }

\* no call of the resize policy or of get_safe_filename is under way, the
\* window has no file selected, no thread is inside batch_process
NoCall == [pc |-> "none"]

OthersIdle ==
    /\ resized = NoCall
    /\ safe = NoCall
    /\ selected_files = <<>>
    /\ warned = FALSE
    /\ threads = <<>>

\* the state after construction, the callback being of one of the kinds
\* callbacks and the pool size one of workers
InitWith(callbacks, workers) ==
    /\ file_list \in FileLists
    /\ bad \in SUBSET Paths
    /\ \A p \in Paths : ~is_supported_format(p) => p \in bad
    /\ \A p \in bad : is_supported_format(p) => \E k \in DOMAIN file_list : file_list[k] = p
    /\ runner \in {"single", "multi"}
    /\ cb_kind \in callbacks
    /\ max_workers \in workers
    /\ runner = "single" => max_workers = 1
    /\ pc = "idle"
    /\ processed_count = [o \in Objs |-> 0]
    /\ lists = << <<>> >>
    /\ failed_files = [o \in Objs |-> IF o = "self" THEN 1 ELSE 0]
    /\ cur = "self"
    /\ i = 0
    /\ tasks = <<>>
    /\ fut = <<>>
    /\ completed_count = 0
    /\ log = <<>>
    /\ result = NoResult
    /\ direct = 0
    /\ outputs = <<>>
    /\ runs = [k \in DOMAIN file_list |-> 0]
    /\ again = FALSE
    /\ prev = NoResult
    /\ OthersIdle

Init == InitWith({"none", "ok", "flaky"}, 1..MaxWorkers)


\* ------------------------------------------------------ sequential runner
\* a fresh list object: the heap with [] appended, and its address
NewList == [heap |-> Append(lists, <<>>), addr |-> Len(lists) + 1]

seq_item_reversed(k) ==
    [pos |-> Len(file_list) - k, input_path |-> file_list[Len(file_list) - k]]

\* for i, input_path in enumerate(file_list): the item of iteration k
seq_item(k) == [pos |-> k + 1, input_path |-> file_list[k + 1]]

seq_advance_retry(k, ok) == IF ok THEN k + 1 ELSE k

\* the for loop moves on to the next file whatever the task returned
seq_advance(k, ok) == k + 1

\* total_files of ImageProcessor.batch_process
seq_total_files == Len(file_list)

BatchProcessSingle_noreset ==
    /\ pc = "idle"
    /\ runner = "single"
    /\ cur' = "self"
    /\ i' = 0
    /\ pc' = "seq"
    /\ UNCHANGED <<inputs, others, again, prev, outputs, runs, processed_count,
                   lists, failed_files, tasks, fut, completed_count, log,
                   result, direct>>

\* ImageProcessor.batch_process, entry: the counters are reset
BatchProcessSingle ==
    /\ pc = "idle"
    /\ runner = "single"
    /\ processed_count' = [processed_count EXCEPT !["self"] = 0]
    /\ lists' = NewList.heap
    /\ failed_files' = [failed_files EXCEPT !["self"] = NewList.addr]
    /\ cur' = "self"
    /\ i' = 0
    /\ pc' = "seq"
    /\ UNCHANGED <<inputs, others, again, prev, outputs, runs, tasks, fut,
                   completed_count, log, result, direct>>

\* one iteration on a file of an unsupported format: recorded, then continue
SeqUnsupported ==
    /\ pc = "seq"
    /\ i < Len(file_list)
    /\ ~is_supported_format(seq_item(i).input_path)
    /\ lists' = [lists EXCEPT ![failed_files[cur]] =
                    Append(@, <<seq_item(i).input_path, UNSUPPORTED>>)]
    /\ i' = i + 1
    /\ UNCHANGED <<inputs, others, again, prev, outputs, runs, pc,
                   processed_count, failed_files, cur, tasks, fut,
                   completed_count, log, result, direct>>

\* one iteration on a supported file: the task, then the progress callback
SeqProcess ==
    /\ pc = "seq"
    /\ i < Len(file_list)
    /\ is_supported_format(seq_item(i).input_path)
    /\ \E throws \in Throwing(seq_item(i).input_path), raises \in CbRaises :
         LET it == seq_item(i)
             r == process_single_image(processed_count[cur], FF(cur),
                                       it.input_path, throws)
             ran == TaskEntry(cur, it.pos, it.input_path, r.ret)
             called == CbEntry(cur, it.pos, basename(it.input_path), r.ret,
                               i + 1, seq_total_files, raises)
         IN /\ processed_count' =
                  [processed_count EXCEPT ![cur] = r.processed_count]
            /\ lists' = [lists EXCEPT ![failed_files[cur]] = r.failed_files]
            /\ log' = IF cb_kind = "none" THEN Append(log, ran)
                      ELSE log \o <<ran, called>>
            /\ outputs' = Save(outputs, output_path_of(it.input_path, OutputDir),
                                it.input_path, r.saved)
            /\ runs' = [runs EXCEPT ![it.pos] = @ + 1]
            /\ IF raises THEN pc' = "raised" /\ i' = i
               ELSE pc' = pc /\ i' = seq_advance(i, r.ret)
    /\ UNCHANGED <<inputs, others, again, prev, failed_files, cur, tasks, fut,
                   completed_count, result, direct>>

\* the dict ImageProcessor.batch_process returns
SeqReturn ==
    /\ pc = "seq"
    /\ i = Len(file_list)
    /\ result' = [returned |-> TRUE,
                  total |-> seq_total_files,
                  processed |-> processed_count[cur],
                  failed |-> Len(FF(cur)),
                  failed_files |-> failed_files[cur],
                  keys |-> {"total", "processed", "failed", "failed_files"},
                  workers_used |-> 0]
    /\ pc' = "done"
    /\ UNCHANGED <<inputs, others, again, prev, outputs, runs, processed_count,
                   failed_files, lists, cur, i, tasks, fut, completed_count,
                   log, direct>>

\* the caller invokes process_single_image itself, before or after the batch
DirectSingle ==
    /\ pc \in {"idle", "done", "later"}
    /\ runner = "single"
    /\ direct < MaxDirect
    /\ \E p \in Paths, throws \in ThrowingSteps \cup {"none"} :
         /\ throws \in Throwing(p)
         /\ LET r == process_single_image(processed_count["self"], FF("self"),
                                          p, throws)
            IN /\ processed_count' =
                     [processed_count EXCEPT !["self"] = r.processed_count]
               /\ lists' = [lists EXCEPT ![failed_files["self"]] = r.failed_files]
               /\ log' = Append(log, TaskEntry("self", 0, p, r.ret))
    /\ direct' = direct + 1
    /\ pc' = IF pc = "idle" THEN "idle" ELSE "later"
    /\ UNCHANGED <<inputs, others, again, prev, outputs, runs, failed_files,
                   cur, i, tasks, fut, completed_count, result>>

SeqNext ==
    \/ BatchProcessSingle
    \/ SeqUnsupported
    \/ SeqProcess
    \/ SeqReturn
    \/ DirectSingle

\* -------------------------------------------------------- parallel runner
\* positions of the file list, in order
Positions == [k \in 1..Len(file_list) |-> k]

\* the filter loop: positions that go to valid_files
ValidPositions ==
    SelectSeq(Positions, LAMBDA k : is_supported_format(file_list[k]))

\* the filter loop: the entries it appends to failed_files
FilterFailures ==
    LET rej == SelectSeq(Positions, LAMBDA k : ~is_supported_format(file_list[k]))
    IN [n \in 1..Len(rej) |-> <<file_list[rej[n]], UNSUPPORTED>>]

\* the task tuple of one valid file (target_size, mode and quality are the
\* same for every task of a batch)
TaskOf(pos) ==
    [pos |-> pos, input_path |-> file_list[pos],
     output_path |-> output_path_of(file_list[pos], OutputDir)]

par_total_files_all == Len(file_list)

\* total_files of MultiProcessImageProcessor.batch_process: len(valid_files)
par_total_files == Len(tasks)

\* MultiProcessImageProcessor.batch_process, entry: reset, filter, tasks
BatchProcessMulti ==
    /\ pc = "idle"
    /\ runner = "multi"
    /\ processed_count' = [processed_count EXCEPT !["self"] = 0]
    /\ lists' = Append(lists, FilterFailures)
    /\ failed_files' = [failed_files EXCEPT !["self"] = NewList.addr]
    /\ tasks' = [n \in 1..Len(ValidPositions) |-> TaskOf(ValidPositions[n])]
    /\ pc' = "filtered"
    /\ UNCHANGED <<inputs, others, again, prev, outputs, runs, cur, i, fut,
                   completed_count, log, result, direct>>

\* if total_files == 0: return
MultiEarlyReturn ==
    /\ pc = "filtered"
    /\ par_total_files = 0
    /\ result' = [returned |-> TRUE,
                  total |-> Len(file_list),
                  processed |-> 0,
                  failed |-> Len(FF("self")),
                  failed_files |-> failed_files["self"],
                  keys |-> {"total", "processed", "failed", "failed_files"},
                  workers_used |-> 0]
    /\ pc' = "done"
    /\ UNCHANGED <<inputs, others, again, prev, outputs, runs, processed_count,
                   failed_files, lists, cur, i, tasks, fut, completed_count,
                   log, direct>>

\* ProcessPoolExecutor(max_workers=...) is constructed
PoolCreate ==
    /\ pc = "filtered"
    /\ par_total_files > 0
    /\ completed_count' = 0
    /\ pc' = "submit"
    /\ UNCHANGED <<inputs, others, again, prev, outputs, runs, processed_count,
                   failed_files, lists, cur, i, tasks, fut, log, result,
                   direct>>

\* the constructor raises: the outer except is entered with no future
PoolCreateFails ==
    /\ pc = "filtered"
    /\ par_total_files > 0
    /\ completed_count' = 0
    /\ pc' = "unwind"
    /\ UNCHANGED <<inputs, others, again, prev, outputs, runs, processed_count,
                   failed_files, lists, cur, i, tasks, fut, log, result,
                   direct>>

Future(state, res) == [state |-> state, result |-> res]

\* every task is submitted
SubmitAll ==
    /\ pc = "submit"
    /\ fut' = [t \in 1..Len(tasks) |-> Future("pending", <<>>)]
    /\ pc' = "collect"
    /\ UNCHANGED <<inputs, others, again, prev, outputs, runs, processed_count,
                   failed_files, lists, cur, i, tasks, completed_count, log,
                   result, direct>>

\* executor.submit raises after k tasks were submitted: the exception leaves
\* the with block, whose exit waits for the submitted tasks
SubmitFails ==
    /\ pc = "submit"
    /\ \E k \in 0..(Len(tasks) - 1) :
         fut' = [t \in 1..k |-> Future("pending", <<>>)]
    /\ pc' = "unwind"
    /\ UNCHANGED <<inputs, others, again, prev, outputs, runs, processed_count,
                   failed_files, lists, cur, i, tasks, completed_count, log,
                   result, direct>>

Running == {t \in DOMAIN fut : fut[t].state = "running"}

\* a free worker process takes the next work item of the call queue, which
\* holds the submitted tasks in the order of their submission
WorkerStart ==
    /\ pc \in {"collect", "unwind"}
    /\ Cardinality(Running) < max_workers
    /\ \E t \in DOMAIN fut :
         /\ fut[t].state = "pending"
         /\ \A u \in 1..(t - 1) : fut[u].state # "pending"
         /\ fut' = [fut EXCEPT ![t].state = "running"]
    /\ UNCHANGED <<inputs, others, again, prev, outputs, runs, pc,
                   processed_count, failed_files, lists, cur, i, tasks,
                   completed_count, log, result, direct>>

\* the worker runs process_single_image_worker to its return
WorkerFinish ==
    /\ pc \in {"collect", "unwind"}
    /\ \E t \in DOMAIN fut :
         /\ fut[t].state = "running"
         /\ \E throws \in Throwing(tasks[t].input_path) :
              LET res == process_single_image_worker(tasks[t], throws)
              IN /\ fut' = [fut EXCEPT ![t] = Future("done", res)]
                 /\ outputs' = Save(outputs, tasks[t].output_path,
                                    tasks[t].input_path,
                                    process_single_image_worker_saved(throws))
                 /\ runs' = [runs EXCEPT ![tasks[t].pos] = @ + 1]
                 /\ log' = log \o WorkerCallbacks(tasks[t], res)
    /\ UNCHANGED <<inputs, others, again, prev, pc, processed_count,
                   failed_files, lists, cur, i, tasks, completed_count, result,
                   direct>>

\* a worker process dies: the pool is broken and every future that has no
\* result yet raises from result()
WorkerCrash ==
    /\ pc \in {"collect", "unwind"}
    /\ Running # {}
    /\ fut' = [t \in DOMAIN fut |->
                 IF fut[t].state \in {"pending", "running"}
                 THEN Future("broken", <<>>) ELSE fut[t]]
    /\ UNCHANGED <<inputs, others, again, prev, outputs, runs, pc,
                   processed_count, failed_files, lists, cur, i, tasks,
                   completed_count, log, result, direct>>

\* progress_callback(completed_count / total_files * 100, filename, success)
ParCb(t, ok, completed, raised) ==
    CbEntry("multi", tasks[t].pos, basename(tasks[t].input_path), ok,
            completed, par_total_files, raised)

\* the except branch of the collector loop, entered with completed_count c
\* and failure list ff: what it leaves, whether its own callback raised
CollectHandler(t, c, ff, raises) ==
    [completed_count |-> c + 1,
     failed_files |-> Append(ff, <<tasks[t].input_path, COLLECT_ERROR>>),
     log |-> IF cb_kind = "none" THEN <<>> ELSE <<ParCb(t, FALSE, c + 1, raises)>>,
     raised |-> raises]

\* one iteration of the as_completed loop on a future that holds a result
CollectResult ==
    /\ pc = "collect"
    /\ \E t \in DOMAIN fut, raises1 \in CbRaises, raises2 \in CbRaises :
         /\ fut[t].state = "done"
         /\ raises2 => raises1
         /\ LET success == fut[t].result[1]
                processed_path == fut[t].result[2]
                error == fut[t].result[3]
                c1 == completed_count + 1
                ff1 == IF success THEN FF("self")
                       ELSE Append(FF("self"), <<processed_path, error>>)
                called == IF cb_kind = "none" THEN <<>>
                          ELSE <<ParCb(t, success, c1, raises1)>>
                h == CollectHandler(t, c1, ff1, raises2)
            IN /\ processed_count' =
                     IF success
                     THEN [processed_count EXCEPT !["self"] = @ + 1]
                     ELSE processed_count
               /\ IF raises1
                  THEN /\ completed_count' = h.completed_count
                       /\ lists' = [lists EXCEPT ![failed_files["self"]] =
                                       h.failed_files]
                       /\ log' = log \o called \o h.log
                       /\ pc' = IF h.raised THEN "unwind" ELSE pc
                  ELSE /\ completed_count' = c1
                       /\ lists' = [lists EXCEPT ![failed_files["self"]] = ff1]
                       /\ log' = log \o called
                       /\ pc' = pc
         /\ fut' = [fut EXCEPT ![t].state = "collected"]
    /\ UNCHANGED <<inputs, others, again, prev, outputs, runs, failed_files,
                   cur, i, tasks, result, direct>>

\* one iteration of the as_completed loop on a future whose result() raises
CollectException ==
    /\ pc = "collect"
    /\ \E t \in DOMAIN fut, raises \in CbRaises :
         /\ fut[t].state = "broken"
         /\ LET h == CollectHandler(t, completed_count, FF("self"), raises)
            IN /\ completed_count' = h.completed_count
               /\ lists' = [lists EXCEPT ![failed_files["self"]] =
                               h.failed_files]
               /\ log' = log \o h.log
               /\ pc' = IF h.raised THEN "unwind" ELSE pc
         /\ fut' = [fut EXCEPT ![t].state = "collected"]
    /\ UNCHANGED <<inputs, others, again, prev, outputs, runs, processed_count,
                   failed_files, cur, i, tasks, result, direct>>

\* the loop and the with block are left: the dict of the parallel runner
MultiReturn ==
    /\ pc = "collect"
    /\ \A t \in DOMAIN fut : fut[t].state = "collected"
    /\ result' = [returned |-> TRUE,
                  total |-> Len(file_list),
                  processed |-> processed_count["self"],
                  failed |-> Len(FF("self")),
                  failed_files |-> failed_files["self"],
                  keys |-> {"total", "processed", "failed", "failed_files",
                            "processing_time", "workers_used"},
                  workers_used |-> max_workers]
    /\ pc' = "done"
    /\ UNCHANGED <<inputs, others, again, prev, outputs, runs, processed_count,
                   failed_files, lists, cur, i, tasks, fut, completed_count,
                   log, direct>>

FallbackObject_inherits ==
    [processed_count |-> processed_count["self"], failed_files |-> FF("self")]

\* single_processor = ImageProcessor(), then the reset at the entry of its
\* batch_process: the counters the sequential rerun starts from
FallbackObject == [processed_count |-> 0, failed_files |-> <<>>]

Fallback_resubmits ==
    /\ pc = "unwind"
    /\ \A t \in DOMAIN fut : fut[t].state \notin {"pending", "running"}
    /\ fut' = <<>>
    /\ pc' = "submit"
    /\ UNCHANGED <<inputs, others, again, prev, outputs, runs, processed_count,
                   lists, failed_files, cur, i, tasks, completed_count, log,
                   result, direct>>

\* the outer except: _fallback_single_process builds an ImageProcessor and
\* enters its batch_process, once the with block has shut the pool down and
\* released its futures
Fallback ==
    /\ pc = "unwind"
    /\ \A t \in DOMAIN fut : fut[t].state \notin {"pending", "running"}
    /\ cur' = "single"
    /\ processed_count' =
          [processed_count EXCEPT !["single"] = FallbackObject.processed_count]
    /\ lists' = lists \o << <<>>, FallbackObject.failed_files >>
    /\ failed_files' = [failed_files EXCEPT !["single"] = Len(lists) + 2]
    /\ i' = 0
    /\ fut' = <<>>
    /\ pc' = "seq"
    /\ UNCHANGED <<inputs, others, again, prev, outputs, runs, tasks,
                   completed_count, log, result, direct>>

ParNext ==
    \/ BatchProcessMulti
    \/ MultiEarlyReturn
    \/ PoolCreate
    \/ PoolCreateFails
    \/ SubmitAll
    \/ SubmitFails
    \/ WorkerStart
    \/ WorkerFinish
    \/ WorkerCrash
    \/ CollectResult
    \/ CollectException
    \/ MultiReturn
    \/ Fallback

Next == SeqNext \/ ParNext

Spec == Init /\ [][Next]_vars

\* ------------------------------------------------------- the batch, again
\* the run met a fault of the pool: it fell back, or a worker died and left
\* a future without a result
Faulty ==
    \/ runner = "multi" /\ cur = "single"
    \/ \E t \in DOMAIN fut : fut[t].result = <<>>

\* The caller keeps the processor and starts the same batch once more, as
\* the window does with its one ImageProcessor: the call's locals and the
\* objects only it reached are gone, the instance's counters and the files
\* of output_dir stay.  prev keeps what the first run returned and left.
CallAgain ==
    /\ pc \in {"done", "later"}
    /\ ~again
    /\ again' = TRUE
    /\ prev' = [returned |-> TRUE,
                total |-> result.total,
                processed |-> result.processed,
                failed |-> result.failed,
                outputs |-> outputs,
                faulty |-> Faulty]
    /\ processed_count' = [o \in Objs |->
                              IF o = "self" THEN processed_count[o] ELSE 0]
    /\ lists' = << FF("self") >>
    /\ failed_files' = [o \in Objs |-> IF o = "self" THEN 1 ELSE 0]
    /\ cur' = "self"
    /\ i' = 0
    /\ tasks' = <<>>
    /\ fut' = <<>>
    /\ completed_count' = 0
    /\ log' = <<>>
    /\ runs' = [k \in DOMAIN file_list |-> 0]
    /\ result' = NoResult
    /\ pc' = "idle"
    /\ UNCHANGED <<inputs, others, direct, outputs>>

NextReuse == Next \/ CallAgain

\* the two runs are made without a progress callback, by a pool that may
\* hold one worker more, so that two tasks can run at once in a batch of two
InitReuse == InitWith({"none"}, 1..(MaxWorkers + 1))

SpecReuse == InitReuse /\ [][NextReuse]_vars


\* ------------------------------------------------------- the resize policy
\* largest width or height of an image or of a target size
MaxSide == 4

\* a decoded image, as far as its size
Image(w, h) == [width |-> w, height |-> h]

Sizes == (1..MaxSide) \X (1..MaxSide)

\* class ResizeMode
ResizeModes == {"stretch", "keep_ratio", "crop"}

Abs(n) == IF n < 0 THEN 0 - n ELSE n

\* math.floor and math.ceil of the fraction a / b, b > 0
Floor(a, b) == a \div b
Ceil(a, b) == (a + b - 1) \div b

\* image.resize(size, LANCZOS): a new image of exactly that size
Image_resize(image, size) == Image(size[1], size[2])

\* image.thumbnail(size, LANCZOS), which changes the image in place: an
\* image that fits is left alone, a larger one is scaled down keeping its
\* aspect ratio, the free side being rounded to the nearer of floor and
\* ceiling (floor on a tie) and kept at 1 or more
Image_thumbnail(image, size) ==
    LET w == image.width
        h == image.height
        x == size[1]
        y == size[2]
        \* y * aspect = y * w / h, key(n) = |aspect - n / y|
        xf == Floor(y * w, h)
        xc == Ceil(y * w, h)
        new_x == IF Abs(w * y - xf * h) <= Abs(w * y - xc * h) THEN xf ELSE xc
        \* x / aspect = x * h / w, key(n) = 0 if n == 0 else |aspect - x / n|
        yf == Floor(x * h, w)
        yc == Ceil(x * h, w)
        new_y == IF yf = 0 \/ Abs(w * yf - x * h) * yc <= Abs(w * yc - x * h) * yf
                 THEN yf ELSE yc
        Max1(n) == IF n < 1 THEN 1 ELSE n
    IN IF x >= w /\ y >= h THEN image
       ELSE IF x * h >= w * y THEN Image(Max1(new_x), y)
       ELSE Image(x, Max1(new_y))

\* ImageOps.fit(image, size, LANCZOS): cropped to the ratio of size, then
\* resized to exactly size
ImageOps_fit(image, size) == Image(size[1], size[2])

\* Image.new('RGB', size, 'white')
Image_new(size) == Image(size[1], size[2])

paste_offset_ceil(total, part) == (total - part + 1) \div 2

\* (target_width - image.width) // 2
paste_offset(total, part) == (total - part) \div 2

\* what a call of the policy leaves: the image returned and, in the
\* keep-ratio mode, where the scaled image was pasted on the canvas
Resized(image, box) == [image |-> image, box |-> box]

NoBox == [x |-> 0, y |-> 0, width |-> 0, height |-> 0]

\* new_image.paste(image, (x, y))
Paste(canvas, image, x, y) ==
    Resized(canvas,
            [x |-> x, y |-> y, width |-> image.width, height |-> image.height])

resize_image_no_canvas(image, target_size, mode) ==
    CASE mode = "stretch" -> Resized(Image_resize(image, target_size), NoBox)
      [] mode = "keep_ratio" ->
            Resized(Image_thumbnail(image, target_size), NoBox)
      [] mode = "crop" -> Resized(ImageOps_fit(image, target_size), NoBox)

\* ImageProcessor.resize_image
resize_image(image, target_size, mode) ==
    CASE mode = "stretch" -> Resized(Image_resize(image, target_size), NoBox)
      [] mode = "keep_ratio" ->
            LET thumb == Image_thumbnail(image, target_size)
                new_image == Image_new(target_size)
                x == paste_offset(target_size[1], thumb.width)
                y == paste_offset(target_size[2], thumb.height)
            IN Paste(new_image, thumb, x, y)
      [] mode = "crop" -> Resized(ImageOps_fit(image, target_size), NoBox)

\* the resize statements written out in process_single_image_worker
worker_resize(img, target_size, mode) ==
    CASE mode = "stretch" -> Resized(Image_resize(img, target_size), NoBox)
      [] mode = "keep_ratio" ->
            LET thumb == Image_thumbnail(img, target_size)
                processed_img == Image_new(target_size)
                x == paste_offset(target_size[1], thumb.width)
                y == paste_offset(target_size[2], thumb.height)
            IN Paste(processed_img, thumb, x, y)
      [] mode = "crop" -> Resized(ImageOps_fit(img, target_size), NoBox)

\* the engine as constructed, with no batch given to it
EngineIdle ==
    /\ file_list = <<>>
    /\ bad = {p \in Paths : ~is_supported_format(p)}
    /\ runner = "single"
    /\ cb_kind = "none"
    /\ max_workers = 1
    /\ pc = "idle"
    /\ processed_count = [o \in Objs |-> 0]
    /\ lists = << <<>> >>
    /\ failed_files = [o \in Objs |-> IF o = "self" THEN 1 ELSE 0]
    /\ cur = "self"
    /\ i = 0
    /\ tasks = <<>>
    /\ fut = <<>>
    /\ completed_count = 0
    /\ log = <<>>
    /\ result = NoResult
    /\ direct = 0
    /\ outputs = <<>>
    /\ runs = <<>>
    /\ again = FALSE
    /\ prev = NoResult

engine == <<inputs, pc, processed_count, failed_files, lists, cur, i, tasks,
            fut, completed_count, log, result, direct, outputs, runs, again,
            prev>>

\* a decoded image, a target size and a mode are at hand
InitResize ==
    /\ EngineIdle
    /\ \E im \in Sizes, target_size \in Sizes, mode \in ResizeModes :
          resized = [pc |-> "decoded", image |-> Image(im[1], im[2]),
                     target_size |-> target_size, mode |-> mode,
                     by_method |-> Resized(Image(im[1], im[2]), NoBox),
                     by_worker |-> Resized(Image(im[1], im[2]), NoBox)]
    /\ safe = NoCall
    /\ selected_files = <<>>
    /\ warned = FALSE
    /\ threads = <<>>

\* process_single_image calls self.resize_image on the decoded image
ResizeByMethod ==
    /\ resized.pc \in {"decoded", "worker"}
    /\ resized' = [resized EXCEPT
                     !.by_method = resize_image(resized.image,
                                                resized.target_size,
                                                resized.mode),
                     !.pc = IF @ = "decoded" THEN "method" ELSE "both"]
    /\ UNCHANGED <<engine, safe, selected_files, warned, threads>>

\* process_single_image_worker resizes the same image with its own statements
ResizeByWorker ==
    /\ resized.pc \in {"decoded", "method"}
    /\ resized' = [resized EXCEPT
                     !.by_worker = worker_resize(resized.image,
                                                 resized.target_size,
                                                 resized.mode),
                     !.pc = IF @ = "decoded" THEN "worker" ELSE "both"]
    /\ UNCHANGED <<engine, safe, selected_files, warned, threads>>

NextResize == ResizeByMethod \/ ResizeByWorker

SpecResize == InitResize /\ [][NextResize]_vars

\* ------------------------------------------------- FileManager.get_safe_filename
\* the largest counter get_safe_filename tries before it gives up
MaxCounter == 1000

\* how far from its two ends the run of existing candidates may end
MaxGap == 2

\* the default of the suffix parameter
DefaultSuffix == "_resized"

\* f"{name}{suffix}{ext}" when counter is 0, f"{name}{suffix}_{counter}{ext}"
\* otherwise, joined to output_dir; tag is the "_<counter>" part, empty or
\* the counter it prints
new_filename(original_path, output_dir, suffix, counter) ==
    [dir |-> output_dir,
     name |-> original_path.name \o suffix,
     tag |-> IF counter = 0 THEN <<>> ELSE <<counter>>,
     ext |-> original_path.ext]

\* the files an output directory may hold when get_safe_filename is called
\* for original_path: the first k candidates, k near 0 or near the end,
\* but for at most one of them
Directories(original_path) ==
    LET upto(k) == {new_filename(original_path, OutputDir, DefaultSuffix, n) :
                       n \in 0..(k - 1)}
        ks == (0..MaxGap) \cup ((MaxCounter + 1 - MaxGap)..(MaxCounter + 1))
    IN {upto(k) : k \in ks}
       \cup {upto(k) \ {new_filename(original_path, OutputDir, DefaultSuffix, h)} :
                k \in ks, h \in 0..MaxGap}

\* os.path.exists(output_path)
os_path_exists(files, output_path) == output_path \in files

gives_up_early(counter) == counter >= MaxCounter

\* if counter > 1000
gives_up(counter) == counter > MaxCounter

\* get_safe_filename is entered: counter = 0
InitSafeName ==
    /\ EngineIdle
    /\ \E original_path \in Paths :
         \E files \in Directories(original_path) :
            safe = [pc |-> "loop", original_path |-> original_path,
                    files |-> files, counter |-> 0,
                    output_path |-> new_filename(original_path, OutputDir,
                                                 DefaultSuffix, 0)]
    /\ resized = NoCall
    /\ selected_files = <<>>
    /\ warned = FALSE
    /\ threads = <<>>

\* the candidate of the iteration the loop is in
SafeCandidate ==
    new_filename(safe.original_path, OutputDir, DefaultSuffix, safe.counter)

\* the candidate does not exist: return output_path
SafeReturn ==
    /\ safe.pc = "loop"
    /\ ~os_path_exists(safe.files, SafeCandidate)
    /\ safe' = [safe EXCEPT !.pc = "returned", !.output_path = SafeCandidate]
    /\ UNCHANGED <<engine, resized, selected_files, warned, threads>>

\* the candidate exists: counter += 1, and the loop goes round
SafeAdvance ==
    /\ safe.pc = "loop"
    /\ os_path_exists(safe.files, SafeCandidate)
    /\ ~gives_up(safe.counter + 1)
    /\ safe' = [safe EXCEPT !.counter = @ + 1, !.output_path = SafeCandidate]
    /\ UNCHANGED <<engine, resized, selected_files, warned, threads>>

\* the candidate exists and counter passes 1000: raise ValueError
SafeRaise ==
    /\ safe.pc = "loop"
    /\ os_path_exists(safe.files, SafeCandidate)
    /\ gives_up(safe.counter + 1)
    /\ safe' = [safe EXCEPT !.counter = @ + 1, !.pc = "raised",
                            !.output_path = SafeCandidate]
    /\ UNCHANGED <<engine, resized, selected_files, warned, threads>>

NextSafeName == SafeReturn \/ SafeAdvance \/ SafeRaise

SpecSafeName == InitSafeName /\ [][NextSafeName]_vars

\* ------------------------------------------------- the window's file list
\* longest list one add_files call receives
MaxAdd == 2

\* the paths a dialog, a folder scan or a drop can hand to the window
WindowPaths ==
    Paths \cup {Path("in1", "b", ".png"), Path("in2", "c", ".jpeg")}

\* the lists add_files can be called with; a path may occur more than once
\* (select_folder globs every extension in lower and in upper case)
FileArgs == UNION { [1..n -> WindowPaths] : n \in 0..MaxAdd }

\* valid_files of add_files
valid_files(files) == SelectSeq(files, is_supported_format)

\* new_files of add_files: existing_files is the set of the paths selected
\* before the call
new_files(files, existing_files) ==
    SelectSeq(valid_files(files), LAMBDA f : f \notin existing_files)

\* the window as constructed: selected_files = []
InitWindow ==
    /\ EngineIdle
    /\ selected_files = <<>>
    /\ warned = FALSE
    /\ resized = NoCall
    /\ safe = NoCall
    /\ threads = <<>>

\* ImageResizerApp.add_files; warned: the call ended in the warning box
add_files ==
    /\ \E files \in FileArgs :
         IF valid_files(files) # <<>>
         THEN /\ selected_files' =
                    selected_files \o
                    new_files(files, {selected_files[n] :
                                         n \in DOMAIN selected_files})
              /\ warned' = FALSE
         ELSE /\ warned' = TRUE
              /\ UNCHANGED selected_files
    /\ UNCHANGED <<engine, resized, safe, threads>>

\* ImageResizerApp.clear_files
clear_files ==
    /\ selected_files' = <<>>
    /\ warned' = FALSE
    /\ UNCHANGED <<engine, resized, safe, threads>>

NextWindow == add_files \/ clear_files

SpecWindow == InitWindow /\ [][NextWindow]_vars

\* ----------------------------------- two threads in batch_process at once
\* longest file list of an invocation that shares the instance with another
MaxOverlap == 1

\* the threads that call batch_process on the window's one ImageProcessor
ThreadIds == {1, 2}

OverlapLists == UNION { [1..n -> Paths] : n \in 0..MaxOverlap }

\* what the two invocations leave alone: the arguments and locals of the
\* batch that Spec follows
batch == <<inputs, pc, cur, i, tasks, fut, completed_count, log, result,
           direct, outputs, runs, again, prev>>

\* each thread is about to call batch_process(files, ...) on the instance
InitOverlap ==
    /\ file_list = <<>>
    /\ bad \in SUBSET Paths
    /\ \A p \in Paths : ~is_supported_format(p) => p \in bad
    /\ runner = "single"
    /\ cb_kind = "none"
    /\ max_workers = 1
    /\ pc = "idle"
    /\ processed_count = [o \in Objs |-> 0]
    /\ lists = << <<>> >>
    /\ failed_files = [o \in Objs |-> IF o = "self" THEN 1 ELSE 0]
    /\ cur = "self"
    /\ i = 0
    /\ tasks = <<>>
    /\ fut = <<>>
    /\ completed_count = 0
    /\ log = <<>>
    /\ result = NoResult
    /\ direct = 0
    /\ outputs = <<>>
    /\ runs = <<>>
    /\ again = FALSE
    /\ prev = NoResult
    /\ \E f1 \in OverlapLists, f2 \in OverlapLists :
          /\ \A p \in bad : is_supported_format(p) =>
                \E k \in DOMAIN (f1 \o f2) : (f1 \o f2)[k] = p
          /\ threads = [t \in ThreadIds |->
                          [pc |-> "idle", files |-> IF t = 1 THEN f1 ELSE f2,
                           i |-> 0, loaded |-> 0, result |-> NoResult,
                           overlapped |-> FALSE]]
    /\ resized = NoCall
    /\ safe = NoCall
    /\ selected_files = <<>>
    /\ warned = FALSE

\* thread t is between the entry of batch_process and its return
InCall(ths, t) == ths[t].pc \notin {"idle", "done"}

\* bookkeeping of a step of thread t that takes the threads to ths: if the
\* other thread is inside batch_process too, both invocations have overlapped
Step(t, ths) ==
    [u \in ThreadIds |->
        IF \E v \in ThreadIds \ {t} : InCall(threads, v)
        THEN [ths[u] EXCEPT !.overlapped = @ \/ InCall(threads, u) \/ u = t]
        ELSE ths[u]]

ResetCount_kept == processed_count["self"]

\* self.processed_count = 0
ResetCount == 0

\* thread t enters batch_process: self.processed_count = 0
OvResetCount(t) ==
    /\ threads[t].pc = "idle"
    /\ processed_count' = [processed_count EXCEPT !["self"] = ResetCount]
    /\ threads' = Step(t, [threads EXCEPT ![t].pc = "reset"])
    /\ UNCHANGED <<batch, failed_files, lists, resized, safe, selected_files,
                   warned>>

\* self.failed_files = []; total_files = len(file_list); the loop begins
OvResetList(t) ==
    /\ threads[t].pc = "reset"
    /\ lists' = NewList.heap
    /\ failed_files' = [failed_files EXCEPT !["self"] = NewList.addr]
    /\ threads' = Step(t, [threads EXCEPT ![t].pc = "loop", ![t].i = 0])
    /\ UNCHANGED <<batch, processed_count, resized, safe, selected_files,
                   warned>>

\* the file of thread t's iteration
OvItem(t) == threads[t].files[threads[t].i + 1]

\* an iteration on an unsupported file: self.failed_files.append(...)
OvUnsupported(t) ==
    /\ threads[t].pc = "loop"
    /\ threads[t].i < Len(threads[t].files)
    /\ ~is_supported_format(OvItem(t))
    /\ lists' = [lists EXCEPT ![failed_files["self"]] =
                    Append(@, <<OvItem(t), UNSUPPORTED>>)]
    /\ threads' = Step(t, [threads EXCEPT ![t].i = @ + 1])
    /\ UNCHANGED <<batch, processed_count, failed_files, resized, safe,
                   selected_files, warned>>

\* process_single_image throws on the file: the except branch appends to
\* the list self.failed_files refers to at that moment
OvTaskFails(t) ==
    /\ threads[t].pc = "loop"
    /\ threads[t].i < Len(threads[t].files)
    /\ is_supported_format(OvItem(t))
    /\ \E throws \in Throwing(OvItem(t)) :
         LET r == process_single_image(processed_count["self"], FF("self"),
                                       OvItem(t), throws)
         IN /\ ~r.ret
            /\ lists' = [lists EXCEPT ![failed_files["self"]] = r.failed_files]
    /\ threads' = Step(t, [threads EXCEPT ![t].i = @ + 1])
    /\ UNCHANGED <<batch, processed_count, failed_files, resized, safe,
                   selected_files, warned>>

\* process_single_image saves the image and reads self.processed_count, the
\* first half of self.processed_count += 1
OvTaskLoad(t) ==
    /\ threads[t].pc = "loop"
    /\ threads[t].i < Len(threads[t].files)
    /\ is_supported_format(OvItem(t))
    /\ "none" \in Throwing(OvItem(t))
    /\ threads' = Step(t, [threads EXCEPT ![t].pc = "store",
                                           ![t].loaded = processed_count["self"]])
    /\ UNCHANGED <<batch, processed_count, failed_files, lists, resized, safe,
                   selected_files, warned>>

\* the second half of self.processed_count += 1, and return True
OvTaskStore(t) ==
    /\ threads[t].pc = "store"
    /\ LET r == process_single_image(threads[t].loaded, FF("self"), OvItem(t),
                                     "none")
       IN processed_count' = [processed_count EXCEPT !["self"] =
                                 r.processed_count]
    /\ threads' = Step(t, [threads EXCEPT ![t].pc = "loop", ![t].i = @ + 1])
    /\ UNCHANGED <<batch, failed_files, lists, resized, safe, selected_files,
                   warned>>

\* the loop of thread t is over: the dict it returns
OvReturn(t) ==
    /\ threads[t].pc = "loop"
    /\ threads[t].i = Len(threads[t].files)
    /\ threads' =
          Step(t, [threads EXCEPT
                     ![t].pc = "done",
                     ![t].result =
                        [returned |-> TRUE,
                         total |-> Len(threads[t].files),
                         processed |-> processed_count["self"],
                         failed |-> Len(FF("self")),
                         failed_files |-> failed_files["self"]]])
    /\ UNCHANGED <<batch, processed_count, failed_files, lists, resized, safe,
                   selected_files, warned>>

NextOverlap ==
    \E t \in ThreadIds :
        \/ OvResetCount(t)
        \/ OvResetList(t)
        \/ OvUnsupported(t)
        \/ OvTaskFails(t)
        \/ OvTaskLoad(t)
        \/ OvTaskStore(t)
        \/ OvReturn(t)

SpecOverlap == InitOverlap /\ [][NextOverlap]_vars

\* ================================================================ claims
\* the callback invocations, in the order they were made
Events == SelectSeq(log, LAMBDA e : e.op = "cb")

\* the entries of the running batch written by the sequential runner
SeqLog == SelectSeq(log, LAMBDA e : e.by \in Objs /\ e.pos > 0)

\* the failed_files list the returned dict refers to
ResultFailures == lists[result.failed_files]

\* the extension, lower-cased, is one of the six supported ones
LowerExtSupported(p) ==
    str_lower(p.ext) \in {".jpg", ".jpeg", ".png", ".bmp", ".tiff", ".webp"}

SupportedPositions == {k \in DOMAIN file_list : LowerExtSupported(file_list[k])}

\* the batch fell back to the sequential runner
FellBack == runner = "multi" /\ cur = "single"

\* how many entries of ff name path p (with reason in reasons)
CountEntries(ff, p, reasons) ==
    Cardinality({n \in DOMAIN ff : ff[n][1] = p /\ ff[n][2] \in reasons})

Reasons == {UNSUPPORTED, TASK_ERROR, COLLECT_ERROR}

\* position k did not succeed in the run that produced the result: its file
\* is unsupported, or its task failed (returned False, or its future raised)
FailedPosition(k) ==
    \/ ~LowerExtSupported(file_list[k])
    \/ IF runner = "multi" /\ ~FellBack
       THEN \E t \in DOMAIN fut :
              tasks[t].pos = k /\ fut[t].result # <<TRUE, file_list[k], "None">>
       ELSE file_list[k] \in bad

\* C1: the dict batch_process returns has total == processed + failed, with
\* total the length of the file list, on every return path of both runners.
C1_TotalIsProcessedPlusFailed ==
    pc = "done" =>
        /\ result.total = Len(file_list)
        /\ result.total = result.processed + result.failed

\* C2: in the returned dict, failed_files has exactly one entry for each
\* position that is unsupported or whose task failed and none for a position
\* whose task succeeded, and every position is counted once, as a success or
\* as a failure.
C2_OneEntryPerFailedPosition ==
    pc = "done" =>
        /\ \A p \in Paths :
             CountEntries(ResultFailures, p, Reasons) =
                Cardinality({k \in DOMAIN file_list :
                                file_list[k] = p /\ FailedPosition(k)})
        /\ result.processed =
              Cardinality({k \in DOMAIN file_list : ~FailedPosition(k)})

\* C3: process_single_image never raises: a call that returns False appended
\* exactly one (input_path, message) entry and left processed_count alone, a
\* call that returns True added 1 to processed_count and left failed_files
\* alone; batch_process is left by an exception only when the callback
\* raised; a worker's future that holds a result holds (True, path, None) or
\* (False, path, message).
C3_TaskNeverRaises ==
    [][/\ (Len(log') > Len(log) /\ log'[Len(log) + 1].op = "task") =>
            LET e == log'[Len(log) + 1]
                o == e.by
            IN IF e.ok
               THEN /\ processed_count'[o] = processed_count[o] + 1
                    /\ lists'[failed_files'[o]] = FF(o)
               ELSE /\ processed_count'[o] = processed_count[o]
                    /\ lists'[failed_files'[o]] =
                          Append(FF(o), <<e.arg, TASK_ERROR>>)
       /\ (pc' = "raised" /\ pc # "raised") =>
            (log'[Len(log')].op = "cb" /\ log'[Len(log')].raised)
       /\ \A t \in DOMAIN fut' :
            fut'[t].state = "done" =>
               fut'[t].result \in
                  {<<TRUE, tasks[t].input_path, "None">>,
                   <<FALSE, tasks[t].input_path, TASK_ERROR>>}
      ]_vars

\* C3 witness: one task of the run has returned False and another True.
C3_Witness ==
    \E a, b \in DOMAIN log :
        /\ log[a].op = "task" /\ ~log[a].ok
        /\ log[b].op = "task" /\ log[b].ok

\* C4: whichever runner ran, the entries of the returned failed_files with
\* the unsupported-format reason are exactly the positions whose lower-cased
\* extension is not supported, and no such file was given to the task or
\* submitted to the pool.
C4_UnsupportedSamePolicy ==
    /\ pc = "done" =>
          \A p \in Paths :
              CountEntries(ResultFailures, p, {UNSUPPORTED}) =
                 Cardinality({k \in DOMAIN file_list :
                                 file_list[k] = p /\ ~LowerExtSupported(p)})
    /\ \A n \in DOMAIN log :
          (log[n].op = "task" /\ log[n].pos > 0) => LowerExtSupported(log[n].arg)
    /\ \A t \in DOMAIN tasks : LowerExtSupported(tasks[t].input_path)

\* C4 witness: a parallel run over a list with a supported and an unsupported
\* file has returned.
C4_Witness ==
    /\ pc = "done"
    /\ runner = "multi"
    /\ ~FellBack
    /\ SupportedPositions # {}
    /\ SupportedPositions # DOMAIN file_list

\* C5: the sequential runner, given a callback, emits one progress event per
\* file of the list, unsupported files included: as many events as files.
C5_SeqEventPerFile ==
    (pc = "done" /\ runner = "single" /\ cb_kind # "none") =>
        /\ Len(Events) = Len(file_list)
        /\ \A k \in DOMAIN file_list : Events[k].pos = k

\* C6: in the sequential runner, for a non-empty list, the percentages
\* delivered are non-decreasing and the last one delivered is 100.
C6_SeqProgressReaches100 ==
    (pc = "done" /\ runner = "single" /\ cb_kind # "none" /\ file_list # <<>>) =>
        /\ \A x, y \in DOMAIN Events :
              x < y => Events[x].num * Events[y].den <= Events[y].num * Events[x].den
        /\ Events # <<>> =>
              Events[Len(Events)].num * 100 = 100 * Events[Len(Events)].den

\* C7: the sequential runner delivers progress events in input order, and
\* starts the task of a file only after the event of every earlier file that
\* produces one has been delivered.
C7_SeqEventsInInputOrder ==
    /\ \A x, y \in DOMAIN SeqLog :
          (x < y /\ SeqLog[x].by = SeqLog[y].by) => SeqLog[x].pos <= SeqLog[y].pos
    /\ \A x, y \in DOMAIN SeqLog :
          (x < y /\ SeqLog[x].by = SeqLog[y].by
             /\ SeqLog[x].op = "cb" /\ SeqLog[y].op = "cb")
          => SeqLog[x].pos < SeqLog[y].pos
    /\ \A y \in DOMAIN SeqLog :
          (SeqLog[y].op = "task" /\ cb_kind # "none") =>
             \A k \in SupportedPositions :
                k < SeqLog[y].pos =>
                   \E x \in 1..(y - 1) :
                      /\ SeqLog[x].op = "cb"
                      /\ SeqLog[x].by = SeqLog[y].by
                      /\ SeqLog[x].pos = k

\* C7 witness: a sequential run has delivered the events of two files.
C7_Witness ==
    /\ pc = "done"
    /\ runner = "single"
    /\ Len(Events) = 2
    /\ Events[1].pos = 1
    /\ Events[2].pos = 2

\* C8: a parallel run with a callback yields, for every file of the list,
\* exactly one progress event and exactly one contribution to the result.
C8_ParOneEventPerFile ==
    (pc = "done" /\ runner = "multi" /\ cb_kind # "none") =>
        /\ \A k \in DOMAIN file_list :
              Cardinality({n \in DOMAIN Events : Events[n].pos = k}) = 1
        /\ result.processed + Len(ResultFailures) = Len(file_list)

\* the events of the parallel phase
ParEvents == SelectSeq(log, LAMBDA e : e.op = "cb" /\ e.by = "multi")

\* C9 as claimed: the events of the parallel runner carry the denominator
\* the sequential runner uses, the length of the file list.
C9_ParDenominatorIsListLength ==
    \A n \in DOMAIN ParEvents : ParEvents[n].den = Len(file_list)

\* C9 amended: the k-th event of the parallel phase carries k over the
\* number of supported files, every event of the sequential runner its
\* position over the length of the list; the denominators are equal exactly
\* when every file is supported.
C9_ParDenominatorIsValidCount ==
    /\ \A n \in DOMAIN ParEvents :
          /\ ParEvents[n].num = n
          /\ ParEvents[n].den = Cardinality(SupportedPositions)
          /\ (ParEvents[n].den = Len(file_list)
                <=> SupportedPositions = DOMAIN file_list)
    /\ \A n \in DOMAIN SeqLog :
          SeqLog[n].op = "cb" =>
             /\ SeqLog[n].num = SeqLog[n].pos
             /\ SeqLog[n].den = Len(file_list)

\* C9 witness: the parallel phase has reported a file of a list that also
\* holds an unsupported file.
C9_Witness ==
    /\ ParEvents # <<>>
    /\ SupportedPositions # DOMAIN file_list

\* what the sequential runner alone records as failed on this list, in order
SeqFailures ==
    LET failing == SelectSeq(Positions, LAMBDA k :
                      ~LowerExtSupported(file_list[k]) \/ file_list[k] \in bad)
    IN [n \in 1..Len(failing) |->
          <<file_list[failing[n]],
            IF LowerExtSupported(file_list[failing[n]])
            THEN TASK_ERROR ELSE UNSUPPORTED>>]

\* C10: after a fallback the returned dict is the one the sequential runner
\* alone produces on the list: same total, processed and failed, the same
\* failures, and nothing the parallel phase had counted.
C10_FallbackEqualsSequential ==
    (pc = "done" /\ FellBack) =>
        /\ result.total = Len(file_list)
        /\ result.processed =
              Cardinality({k \in SupportedPositions : file_list[k] \notin bad})
        /\ result.failed = Len(SeqFailures)
        /\ ResultFailures = SeqFailures
        /\ \A n \in DOMAIN ResultFailures : ResultFailures[n][2] # COLLECT_ERROR

\* C10 witness: the fallback has returned after the parallel phase had
\* already counted a success and recorded a failure of its own.
C10_Witness ==
    /\ pc = "done"
    /\ FellBack
    /\ completed_count > 0
    /\ processed_count["self"] > 0
    /\ \E n \in DOMAIN FF("self") : FF("self")[n][2] = COLLECT_ERROR
    /\ result.processed > 0

\* C11: every dict the batch_process of the parallel runner returns carries
\* the elapsed processing time and the worker count, on every return path:
\* the normal one, the early return when no file is supported, the fallback.
C11_ParResultCarriesTiming ==
    (pc = "done" /\ runner = "multi") =>
        {"processing_time", "workers_used"} \subseteq result.keys

\* C12: every percentage handed to the callback, by either runner and on
\* every path, lies in [0, 100]: the numerator of an event never exceeds its
\* denominator.
C12_PercentageInRange ==
    \A n \in DOMAIN Events :
        /\ Events[n].den > 0
        /\ 0 <= Events[n].num
        /\ Events[n].num <= Events[n].den

\* C13: during one batch_process call of the parallel runner the callback is
\* invoked at most once for each file of the list, a fallback included.
C13_ParAtMostOneCallPerFile ==
    runner = "multi" =>
        \A k \in DOMAIN file_list :
            Cardinality({n \in DOMAIN Events : Events[n].pos = k}) <= 1

C16_ReturnedResultImmutable ==
    [][result.returned =>
          /\ result' = result
          /\ lists'[result'.failed_files] = lists[result.failed_files]
      ]_vars

\* the futures of the parallel phase that hold a success
Succeeded == {t \in DOMAIN fut : fut[t].result # <<>> /\ fut[t].result[1]}

\* C15: the counters are reset at the start of every batch_process call:
\* whatever batch_process and process_single_image calls the instance served
\* before, the dict a call returns is fixed by that call alone: its list
\* and the outcomes of its own tasks (and of its own callback invocations).
C15_ResultDependsOnThisCallOnly ==
    pc = "done" =>
        /\ result.total = Len(file_list)
        /\ result.failed = Len(ResultFailures)
        /\ IF runner = "single" \/ FellBack
           THEN /\ result.processed =
                      Cardinality({n \in DOMAIN SeqLog :
                                      /\ SeqLog[n].by = cur
                                      /\ SeqLog[n].op = "task"
                                      /\ SeqLog[n].ok})
                /\ ResultFailures = SeqFailures
           ELSE /\ result.processed = Cardinality(Succeeded)
                /\ Len(ResultFailures) =
                      Len(FilterFailures)
                      + Cardinality(DOMAIN fut \ Succeeded)
                      + Cardinality({n \in DOMAIN ParEvents : ParEvents[n].raised})

\* C15 witness: a second batch_process call has returned on an instance
\* whose counters the first call and a direct call had left non-zero.
C15_Witness ==
    /\ pc = "done"
    /\ again
    /\ direct > 0
    /\ prev.processed > 0
    /\ prev.failed > 0
    /\ result.processed = prev.processed
    /\ result.failed = prev.failed

\* how often the running sequential pass has handed position k to the task
SeqRuns(k) ==
    Cardinality({n \in DOMAIN SeqLog :
                    /\ SeqLog[n].by = cur
                    /\ SeqLog[n].op = "task"
                    /\ SeqLog[n].pos = k})

\* C17 as claimed: a position is executed once, never a second time, in
\* either runner: no file is handed to the single-image logic twice during
\* one batch, and an unsupported file never.
C17_EachPositionRunsOnce ==
    \A k \in DOMAIN file_list :
        runs[k] <= IF LowerExtSupported(file_list[k]) THEN 1 ELSE 0

\* C17 amended: every supported position becomes one task of the parallel
\* runner; within one pass over the list a position is handed to the
\* single-image logic at most once, so a failed task is not run again by
\* that pass, and an unsupported file never is; a batch that returns without
\* fallback has run each supported position once, unless a dying worker
\* took its task with it; a batch that falls back runs every supported
\* position once in the sequential pass, on top of the run a worker may have
\* made of it: twice at most.
C17_OncePerPass ==
    \A k \in DOMAIN file_list :
        /\ ~LowerExtSupported(file_list[k]) => runs[k] = 0
        /\ (runner = "multi" /\ pc # "idle" /\ LowerExtSupported(file_list[k])) =>
              Cardinality({t \in DOMAIN tasks : tasks[t].pos = k}) = 1
        /\ SeqRuns(k) <= 1
        /\ runs[k] <= IF FellBack THEN 1 + SeqRuns(k) ELSE 1
        /\ (pc = "done" /\ LowerExtSupported(file_list[k])) =>
              IF runner = "single" \/ FellBack
              THEN SeqRuns(k) = 1
              ELSE \E t \in DOMAIN fut :
                      /\ tasks[t].pos = k
                      /\ runs[k] = IF fut[t].result = <<>> THEN 0 ELSE 1

\* C17 witness: a batch that fell back has returned, and the file of a
\* failed task was run twice: by a worker and by the sequential pass.
C17_Witness ==
    /\ pc = "done"
    /\ FellBack
    /\ \E k \in DOMAIN file_list :
          /\ file_list[k] \in bad
          /\ LowerExtSupported(file_list[k])
          /\ runs[k] = 2

\* the phases of a batch run, read off the position of batch_process:
\* Idle, Filtering (done when pc is "filtered"), Running, Falling-back,
\* Running(sequential), Done; "raised": left by an exception
PhaseOrder ==
    { <<"idle", "filtered">>,
      <<"filtered", "submit">>, <<"filtered", "unwind">>, <<"filtered", "done">>,
      <<"submit", "collect">>, <<"submit", "unwind">>,
      <<"collect", "collect">>, <<"collect", "unwind">>, <<"collect", "done">>,
      <<"unwind", "unwind">>, <<"unwind", "seq">>,
      <<"seq", "seq">>, <<"seq", "done">>, <<"seq", "raised">> }

\* work left to a parallel invocation: every step of it lowers this number
FutureWeight(f) ==
    CASE f.state = "pending" -> 3
      [] f.state = "running" -> 2
      [] f.state \in {"done", "broken"} -> 1
      [] OTHER -> 0

RECURSIVE SumWeights(_)
SumWeights(fs) ==
    IF fs = <<>> THEN 0 ELSE FutureWeight(Head(fs)) + SumWeights(Tail(fs))

WorkLeft(at, futures, index) ==
    CASE at = "idle" -> 5 * Len(file_list) + 10
      [] at = "filtered" -> 5 * Len(file_list) + 9
      [] at = "submit" -> 5 * Len(file_list) + 8
      [] at = "collect" -> Len(file_list) + 3 + SumWeights(futures)
      [] at = "unwind" -> Len(file_list) + 2 + SumWeights(futures)
      [] at = "seq" -> Len(file_list) + 1 - index
      [] OTHER -> 0

\* C18 as claimed: every invocation of the parallel runner reaches Done and
\* returns a result: it is never left by an exception instead.
C18_ParAlwaysReturns ==
    runner = "multi" => pc # "raised"

\* C18 amended: a parallel invocation moves through the phases in the order
\* Idle, Filtering, then Done at once when no file is supported, else
\* Running, then Done or Falling-back, sequential Running and Done; futures
\* appear only after the filter has built the tasks; the fallback is entered
\* at most once; the result is set once, on entering Done; every step lowers
\* the work left and a step is possible until the invocation is Done or has
\* been left by an exception the callback raised in the sequential pass, so
\* with terminating tasks it ends in one of the two.
C18_PhasesInOrderAndProgress ==
    /\ [](runner = "multi" => (pc \in {"done", "raised"} \/ ENABLED Next))
    /\ [][runner = "multi" =>
             /\ <<pc, pc'>> \in PhaseOrder
             /\ (fut = <<>> /\ fut' # <<>>) => (pc = "submit" /\ tasks # <<>>)
             /\ pc # "idle" => tasks' = tasks
             /\ pc' = "unwind" => cur' = "self"
             /\ cur = "single" =>
                   (cur' = "single" /\ pc' \in {"seq", "done", "raised"})
             /\ result' # result =>
                   (~result.returned /\ result'.returned /\ pc' = "done")
             /\ pc' = "done" => result'.returned
             /\ pc' = "raised" => (cur = "single" /\ log'[Len(log')].raised)
             /\ WorkLeft(pc', fut', i') < WorkLeft(pc, fut, i)
         ]_vars

\* C18 witness: a parallel invocation that ran tasks, fell back and reran the
\* list sequentially is Done and has returned its result.
C18_Witness ==
    /\ pc = "done"
    /\ FellBack
    /\ result.returned
    /\ \E k \in DOMAIN file_list : runs[k] = 2

\* the positions whose task succeeds whenever it runs to its end
GoodPositions == {k \in SupportedPositions : file_list[k] \notin bad}

\* the positions of the list whose output file is o
WritersOf(o) ==
    {k \in DOMAIN file_list :
        /\ o.dir = OutputDir
        /\ o.name = file_list[k].name \o "_resized"
        /\ o.ext = file_list[k].ext}

\* the largest position of a non-empty set of positions
Latest(ks) == CHOOSE k \in ks : \A j \in ks : j <= k

\* C19: the output path of an input is output_dir/<stem>_resized<ext>, fixed
\* by its base name alone; inputs with the same base name share one output
\* file, each of them is counted as processed, and the file holds the image
\* of the one that wrote last: the later in input order after a sequential
\* pass, any of those that succeeded after a parallel pass; so there can be
\* fewer output files than processed files.  (Stated for the first run into
\* an empty output_dir.)
C19_LastWriterWins ==
    /\ \A o \in DOMAIN outputs :
          /\ o.dir = OutputDir
          /\ o.name = outputs[o].name \o "_resized"
          /\ o.ext = outputs[o].ext
          /\ \E k \in WritersOf(o) : file_list[k] = outputs[o]
    /\ (pc = "done" /\ ~again) =>
          /\ Cardinality(DOMAIN outputs) <= result.processed
          /\ IF runner = "single" \/ FellBack
             THEN /\ result.processed = Cardinality(GoodPositions)
                  /\ \A k \in GoodPositions :
                        LET o == output_path_of(file_list[k], OutputDir)
                        IN /\ o \in DOMAIN outputs
                           /\ outputs[o] =
                                 file_list[Latest(WritersOf(o) \cap GoodPositions)]
                  /\ \A o \in DOMAIN outputs : WritersOf(o) \cap GoodPositions # {}
             ELSE /\ result.processed = Cardinality(Succeeded)
                  /\ DOMAIN outputs = {tasks[t].output_path : t \in Succeeded}
                  /\ \A o \in DOMAIN outputs :
                        \E t \in Succeeded :
                           /\ tasks[t].output_path = o
                           /\ tasks[t].input_path = outputs[o]

\* C19 witness: a parallel run over two images of the same base name from
\* different folders has returned: both are counted as processed,
\* output_dir holds one file, and it is the image of the first of the list,
\* whose task finished last.
C19_Witness ==
    /\ pc = "done"
    /\ ~again
    /\ runner = "multi"
    /\ ~FellBack
    /\ Len(file_list) = 2
    /\ file_list[1] # file_list[2]
    /\ result.processed = 2
    /\ Cardinality(DOMAIN outputs) = 1
    /\ \A o \in DOMAIN outputs : outputs[o] = file_list[1]

\* the different inputs that can write output file o
ContentsOf(o) == {file_list[k] : k \in WritersOf(o) \cap GoodPositions}

\* C20 as claimed: when the same batch has run a second time, with no fault
\* of the pool in either run, output_dir holds the same files with the same
\* content as after the first run and the same total, processed and failed
\* are returned.
C20_SecondRunSame ==
    (pc = "done" /\ again /\ ~prev.faulty /\ ~Faulty) =>
        /\ outputs = prev.outputs
        /\ result.total = prev.total
        /\ result.processed = prev.processed
        /\ result.failed = prev.failed

\* C20 amended: the second run never adds a differently named file: the
\* files of output_dir are the outputs of the list's good inputs which the
\* first run wrote too; it returns the same total; after two sequential runs
\* content and counts are the same; after two parallel runs without a fault
\* of the pool the counts and the set of files are the same, and so is the
\* content of every file that only one input writes, while a file shared by
\* different inputs holds the image of whichever finished last in each run.
C20_SecondRunSameUnlessShared ==
    (pc = "done" /\ again) =>
        /\ result.total = prev.total
        /\ DOMAIN prev.outputs \subseteq DOMAIN outputs
        /\ \A o \in DOMAIN outputs : outputs[o] \in ContentsOf(o)
        /\ runner = "single" =>
              /\ outputs = prev.outputs
              /\ result.processed = prev.processed
              /\ result.failed = prev.failed
        /\ (runner = "multi" /\ ~prev.faulty /\ ~Faulty) =>
              /\ DOMAIN outputs = DOMAIN prev.outputs
              /\ result.processed = prev.processed
              /\ result.failed = prev.failed
              /\ \A o \in DOMAIN outputs :
                    Cardinality(ContentsOf(o)) = 1 => outputs[o] = prev.outputs[o]

\* C20 witness: the sequential runner has run a batch twice that writes a
\* file and has a failure; the second run left the file of the first.
C20_Witness ==
    /\ pc = "done"
    /\ again
    /\ runner = "single"
    /\ DOMAIN outputs # {}
    /\ outputs = prev.outputs
    /\ result.processed > 0
    /\ result.failed > 0

\* ------------------------------------------------------------------- C21
\* the calls of the resize policy that have been made
ResizeResults ==
    (IF resized.pc \in {"method", "both"} THEN {resized.by_method} ELSE {})
    \cup (IF resized.pc \in {"worker", "both"} THEN {resized.by_worker} ELSE {})

\* C21: for every image size and every target (W, H) with W > 0 and H > 0,
\* the image the resize policy returns is exactly W x H in each of the modes
\* stretch, keep_ratio and crop, and the resize statements of the parallel
\* worker give the same dimensions as ImageProcessor.resize_image.
C21_ResizedToTarget ==
    /\ \A r \in ResizeResults :
          /\ r.image.width = resized.target_size[1]
          /\ r.image.height = resized.target_size[2]
    /\ resized.pc = "both" => resized.by_method.image = resized.by_worker.image

\* both have resized, in keep_ratio mode, an image that is larger than the
\* target and whose scaled copy is smaller than the target on one side
C21_Witness ==
    /\ resized.pc = "both"
    /\ resized.mode = "keep_ratio"
    /\ resized.image.width > resized.target_size[1]
    /\ resized.by_method.box.height < resized.target_size[2]
    /\ resized.by_method.box.height > 0

\* ------------------------------------------------------------------- C23
\* the padding a pasted box leaves on an axis of the canvas
PadBefore(r, axis) == IF axis = 1 THEN r.box.x ELSE r.box.y
BoxSide(r, axis) == IF axis = 1 THEN r.box.width ELSE r.box.height
PadAfter(r, axis) ==
    resized.target_size[axis] - BoxSide(r, axis) - PadBefore(r, axis)

\* C23: in keep_ratio mode the scaled image (w, h) has w <= W and h <= H and
\* is pasted at x = (W - w) // 2, y = (H - h) // 2: the offsets are not
\* negative, the pasted region lies inside the W x H canvas, and on each
\* axis the padding after the image is the padding before it or one pixel
\* more (the extra pixel is on the right or at the bottom).
C23_KeepRatioCentred ==
    resized.mode = "keep_ratio" =>
        \A r \in ResizeResults : \A axis \in {1, 2} :
            /\ BoxSide(r, axis) >= 1
            /\ BoxSide(r, axis) <= resized.target_size[axis]
            /\ 2 * PadBefore(r, axis) <= resized.target_size[axis] - BoxSide(r, axis)
            /\ 2 * PadBefore(r, axis) + 1 >= resized.target_size[axis] - BoxSide(r, axis)
            /\ PadBefore(r, axis) >= 0
            /\ PadBefore(r, axis) + BoxSide(r, axis) <= resized.target_size[axis]
            /\ PadAfter(r, axis) - PadBefore(r, axis) \in {0, 1}

\* both have pasted a scaled image that leaves an odd number of pixels free
\* on the horizontal axis, so that the right side gets one pixel more
C23_Witness ==
    /\ resized.pc = "both"
    /\ resized.mode = "keep_ratio"
    /\ PadAfter(resized.by_method, 1) = PadBefore(resized.by_method, 1) + 1
    /\ PadAfter(resized.by_worker, 1) = PadBefore(resized.by_worker, 1) + 1
    /\ resized.image.width > resized.target_size[1]

\* ------------------------------------------------------------------- C22
\* the failure entries fixed by the file list and the outcomes of the tasks,
\* whatever the order in which the futures complete and are collected
OutcomeFailures ==
    {FilterFailures[n] : n \in DOMAIN FilterFailures}
    \cup {<<tasks[t].input_path, TASK_ERROR>> :
             t \in {u \in DOMAIN fut : fut[u].result # <<>> /\ ~fut[u].result[1]}}
    \cup {<<tasks[t].input_path, COLLECT_ERROR>> :
             t \in {u \in DOMAIN fut : fut[u].result = <<>>}}

\* C22: the dict of a parallel run that does not fall back is fixed by the
\* file list and the outcome of each file's task, in whatever order the
\* tasks complete and are collected: total is the length of the list,
\* processed the number of tasks that succeeded, failed the number of the
\* other files, and the set of failed_files entries the set of their
\* failures.
C22_AggregateOrderFree ==
    (pc = "done" /\ runner = "multi" /\ ~FellBack) =>
        /\ result.total = Len(file_list)
        /\ result.processed = Cardinality(Succeeded)
        /\ result.failed = Len(file_list) - Cardinality(Succeeded)
        /\ {ResultFailures[n] : n \in DOMAIN ResultFailures} = OutcomeFailures

\* ------------------------------------------------------------------- C28
\* the futures the collector loop has dealt with
Collected == {t \in DOMAIN fut : fut[t].state = "collected"}

\* the entries the collector loop appended to failed_files
CollectorFailures == Len(FF("self")) - Len(FilterFailures)

\* C28: in the parallel runner a callback invocation that raises while a
\* finished task is reported leaves the accounting intact: every collected
\* task is counted once, in processed_count or in failed_files and not in
\* both, and completed_count was incremented once for it.
C28_CallbackRaiseKeepsAccounting ==
    (/\ runner = "multi"
     /\ cur = "self"
     /\ pc \in {"collect", "unwind", "done"}
     /\ \E n \in DOMAIN ParEvents : ParEvents[n].raised) =>
        /\ completed_count = Cardinality(Collected)
        /\ processed_count["self"] + CollectorFailures = Cardinality(Collected)

\* ------------------------------------------------------------------- C24
\* the collector loop takes, in this step, a future whose result() raises
TakesBroken(t) ==
    /\ pc = "collect"
    /\ t \in DOMAIN fut
    /\ fut[t].state = "broken"
    /\ fut'[t].state = "collected"

\* C24: only a failure of the pool (its construction, a submission) makes
\* the parallel runner fall back; a future whose result() raises is recorded
\* as one failed file, reported with success = False, and the loop goes on
\* with the other futures; a result returned without fallback accounts for
\* every submitted task.
C24_OnlyPoolFailureFallsBack ==
    /\ []((pc = "done" /\ runner = "multi" /\ ~FellBack) =>
             \A t \in DOMAIN tasks : t \in Collected)
    /\ [][/\ (pc # "unwind" /\ pc' = "unwind") => pc \in {"filtered", "submit"}
          /\ \A t \in DOMAIN fut :
                TakesBroken(t) =>
                    /\ pc' = "collect"
                    /\ (FF("self"))' =
                          Append(FF("self"),
                                 <<tasks[t].input_path, COLLECT_ERROR>>)
                    /\ cb_kind # "none" =>
                          /\ Len(log') = Len(log) + 1
                          /\ log'[Len(log')].pos = tasks[t].pos
                          /\ ~log'[Len(log')].ok]_vars

\* ------------------------------------------------------------------- C25
\* C25: the parallel runner reports a file only after its task has finished
\* (its future holds a result or an exception and has been collected), never
\* at submission or start, and when the k-th event is delivered exactly k
\* tasks have been collected.
C25_EventAfterTaskFinished ==
    (runner = "multi" /\ cur = "self") =>
        /\ \A n \in DOMAIN ParEvents :
              \E t \in Collected : tasks[t].pos = ParEvents[n].pos
        /\ cb_kind # "none" => Len(ParEvents) = Cardinality(Collected)

\* ------------------------------------------------------------------- C27
\* C27: a parallel run that does not fall back and has a supported file
\* delivers strictly increasing percentages, one step per finished task
\* (the k-th event carries k over the number of tasks), the last one 100,
\* whatever the order in which the tasks complete.
C27_ParPercentagesStepTo100 ==
    (runner = "multi" /\ cur = "self" /\ cb_kind # "none" /\ Len(tasks) > 0) =>
        /\ \A n \in DOMAIN ParEvents :
              /\ ParEvents[n].num = n
              /\ ParEvents[n].den = Len(tasks)
              /\ n > 1 => ParEvents[n - 1].num * ParEvents[n].den
                             < ParEvents[n].num * ParEvents[n - 1].den
        /\ pc = "done" =>
              /\ Len(ParEvents) = Len(tasks)
              /\ ParEvents[Len(ParEvents)].num = ParEvents[Len(ParEvents)].den

\* ------------------------------------------------------------------- C26
\* the n-th candidate of the call in progress
Candidate(n) == new_filename(safe.original_path, OutputDir, DefaultSuffix, n)

\* C26: get_safe_filename tries <name><suffix><ext>, then
\* <name><suffix>_<n><ext> for n = 1..1000 in this order: every candidate
\* before the one it is at exists; it returns the first candidate that does
\* not exist, never an existing path; it raises ValueError exactly when all
\* 1001 candidates exist; and each round of the loop moves to the next
\* candidate, so it ends after at most 1001 rounds.
C26_FirstFreeCandidate ==
    /\ [](safe.pc # "none" =>
            /\ safe.counter \in 0..1001
            /\ safe.pc = "loop" => safe.counter <= 1000
            /\ \A n \in 0..1000 :
                  n < safe.counter => os_path_exists(safe.files, Candidate(n))
            /\ safe.pc = "returned" =>
                  /\ safe.output_path = Candidate(safe.counter)
                  /\ safe.counter <= 1000
                  /\ ~os_path_exists(safe.files, safe.output_path)
                  /\ safe.output_path.tag =
                        IF safe.counter = 0 THEN <<>> ELSE <<safe.counter>>
            /\ safe.pc = "raised" =>
                  \A n \in 0..1000 : os_path_exists(safe.files, Candidate(n))
            /\ (\A n \in 0..1000 : os_path_exists(safe.files, Candidate(n)))
                  => safe.pc # "returned"
            /\ safe.pc = "loop" => ENABLED NextSafeName)
    /\ [][safe.pc = "loop" =>
            (safe'.counter = safe.counter + 1 \/ safe'.pc = "returned")]_vars

\* all 1001 candidates exist and the call has raised ValueError
C26_Witness ==
    /\ safe.pc = "raised"
    /\ Cardinality(safe.files) = 1001

\* ------------------------------------------------------------------- C29
\* C29: after any sequence of add_files and clear_files calls selected_files
\* holds only files of a supported format and no path twice, also when one
\* add_files call is given a list in which a path occurs more than once.
C29_SelectedSupportedAndUnique ==
    /\ \A n \in DOMAIN selected_files : is_supported_format(selected_files[n])
    /\ \A n, k \in DOMAIN selected_files :
          selected_files[n] = selected_files[k] => n = k

\* ------------------------------------------------------------------- C30
\* the failures of thread t's own list, in list order
OwnFailures(t) ==
    LET files == threads[t].files
        failing == SelectSeq([k \in DOMAIN files |-> k], LAMBDA k :
                      ~LowerExtSupported(files[k]) \/ files[k] \in bad)
    IN [n \in 1..Len(failing) |->
          <<files[failing[n]],
            IF LowerExtSupported(files[failing[n]])
            THEN TASK_ERROR ELSE UNSUPPORTED>>]

\* the entries of the failed_files list thread t's dict refers to
ReturnedFailures(t) == lists[threads[t].result.failed_files]

\* C30 as claimed: of two invocations of batch_process that overlap on one
\* instance, each returns total == processed + failed for its own list and
\* only the failures of its own files.
C30_OverlapKeepsResultsApart ==
    \A t \in ThreadIds :
        threads # <<>> /\ threads[t].pc = "done" =>
            /\ threads[t].result.total = Len(threads[t].files)
            /\ threads[t].result.total =
                  threads[t].result.processed + threads[t].result.failed
            /\ \A n \in DOMAIN ReturnedFailures(t) :
                  \E k \in DOMAIN threads[t].files :
                     ReturnedFailures(t)[n][1] = threads[t].files[k]

\* C30 amended: the invocations share processed_count and failed_files, so
\* only total, the length of the own list, is kept apart; an invocation
\* during which no other invocation was inside batch_process returns
\* total == processed + failed and exactly the failures of its own files,
\* whatever ran on the instance before or runs after; an invocation that
\* overlapped with another returns counts between 0 and the successes of
\* both lists and failures of files of either list.
C30_OnlySeparateCallsExact ==
    \A t \in ThreadIds :
        threads # <<>> /\ threads[t].pc = "done" =>
            /\ threads[t].result.total = Len(threads[t].files)
            /\ ~threads[t].overlapped =>
                  /\ ReturnedFailures(t) = OwnFailures(t)
                  /\ threads[t].result.failed = Len(OwnFailures(t))
                  /\ threads[t].result.processed =
                        Len(threads[t].files) - Len(OwnFailures(t))
            /\ threads[t].result.processed \in
                  0..(Len(threads[1].files) - Len(OwnFailures(1))
                      + Len(threads[2].files) - Len(OwnFailures(2)))
            /\ \A n \in DOMAIN ReturnedFailures(t) :
                  \E u \in ThreadIds : \E k \in DOMAIN OwnFailures(u) :
                     ReturnedFailures(t)[n] = OwnFailures(u)[k]

\* the two invocations overlapped and both have returned; the first one's
\* dict refers to a failure of a file of the second one's list only, and
\* its counts do not add up to its total
C30_Witness ==
    /\ threads # <<>>
    /\ threads[1].pc = "done"
    /\ threads[2].pc = "done"
    /\ threads[1].overlapped
    /\ threads[2].overlapped
    /\ \E n \in DOMAIN ReturnedFailures(1) :
          \A k \in DOMAIN threads[1].files :
             ReturnedFailures(1)[n][1] # threads[1].files[k]
    /\ threads[1].result.total #
          threads[1].result.processed + threads[1].result.failed

====
